---- MODULE Spec2Model ----
(***************************************************************************)
(* Model of the user controller (src/controllers/userController.js).       *)
(*                                                                         *)
(* Every handler is an async function: each `await` on the account store   *)
(* is a point where another request may run.  A handler is therefore       *)
(* modelled as one action per store operation: the action performs the     *)
(* store operation and the synchronous code that follows it, up to the     *)
(* next store operation or the response.                                   *)
(*                                                                         *)
(* The account store is a Mongoose model.  user.save() on a loaded         *)
(* document writes the paths whose assigned value differs from the value   *)
(* that was loaded (an assignment of an equal value marks nothing), it     *)
(* never inserts, and it raises DocumentNotFoundError when the document    *)
(* is gone.                                                                *)
(***************************************************************************)
EXTENDS Integers, Sequences, FiniteSets, TLC

VARIABLES store, nextId, pc, req, doc, res, started

vars == <<store, nextId, pc, req, doc, res, started>>

----------------------------------------------------------------------------
(* Bounds *)

NumProcs == 2
MaxAccounts == 2
MaxRequests == 3

Procs == 1..NumProcs
Ids == 1..MaxAccounts

----------------------------------------------------------------------------
(* JavaScript values of the request bodies *)

Undefined == "undefined"
Null == "null"
Empty == ""

Truthy(x) == x \notin {Undefined, Null, Empty}

FullNames == {"A", "B"}

NoRoles == <<"undefined">>
RoleInputs == { <<>>, <<"ADMIN", "USER">>, <<"SUPERUSER">>,
                <<"ROOT", "USER", "SUPERUSER">> }

\* request bodies of registerUser
RegisterInputs ==
    { [fullName |-> "A", email |-> "a@x.com", password |-> "p1",
       profileImage |-> x[1], username |-> Undefined, roles |-> x[2]] :
         x \in { <<Undefined, NoRoles>>, <<"img.png", <<>> >>,
                 <<Undefined, <<"ADMIN", "USER">> >>,
                 <<Undefined, <<"SUPERUSER">> >> } }
    \cup { [fullName |-> "A", email |-> "b@x.com", password |-> "p1",
            profileImage |-> Undefined, username |-> Undefined, roles |-> NoRoles] }

\* request bodies of authUser
AuthInputs ==
    { [email |-> "a@x.com", password |-> "p1"],
      [email |-> "a@x.com", password |-> "wrong"],
      [email |-> "b@x.com", password |-> "p1"] }

USER == "USER"
ADMIN == "ADMIN"
UserRole == {USER, ADMIN}

DefaultProfileImage == "https://www.example.com/default-profile.jpg"

Range(s) == { s[i] : i \in DOMAIN s }

----------------------------------------------------------------------------
(* Account store *)

NoDoc == [_id |-> 0, fullName |-> Undefined, email |-> Undefined,
          username |-> Undefined, password |-> Undefined,
          profileImage |-> Undefined, roles |-> <<>>, isBanned |-> FALSE]

Paths == {"fullName", "email", "username", "password", "profileImage",
          "roles", "isBanned"}

DocumentKeys == Paths \cup {"_id"}

hash(plaintext) == "h(" \o plaintext \o ")"

matchPassword(user, enteredPassword) == hash(enteredPassword) = user.password

hasRole(user, role) == role \in Range(user.roles)

findOne(email) ==
    IF \E i \in DOMAIN store : store[i].email = email
    THEN CHOOSE d \in { store[i] : i \in DOMAIN store } : d.email = email
    ELSE NoDoc

findById(id) == IF id \in DOMAIN store THEN store[id] ELSE NoDoc

find == { store[i] : i \in DOMAIN store }

\* unique index on email, and on username when one is provided
DuplicateKey(d) ==
    \E i \in DOMAIN store :
        /\ i # d._id
        /\ \/ store[i].email = d.email
           \/ d.username # Null /\ store[i].username = d.username

ValidData(d) == Range(d.roles) \subseteq UserRole

NoReq == [op |-> "none", id |-> 0, fullName |-> Undefined, email |-> Undefined,
          username |-> Undefined, password |-> Undefined,
          profileImage |-> Undefined, roles |-> NoRoles]

----------------------------------------------------------------------------
(* Responses *)

\* request: the request answered; keys, docs: the fields and the documents of
\* the JSON body; jwt: the session cookie; event: the userStatus event emitted
\* ("failed" when the emit threw)
NoRes == [request |-> NoReq, status |-> 0, message |-> "", keys |-> {},
          docs |-> {}, isAdmin |-> FALSE, token |-> 0, jwt |-> "unset",
          event |-> "none"]

Json(request, status, keys, docs) ==
    [NoRes EXCEPT !.request = request, !.status = status, !.keys = keys,
                  !.docs = docs]

\* asyncHandler passes a thrown error on; the status is the one the handler
\* set before throwing, 500 when it set none
Error(request, status, message) ==
    [NoRes EXCEPT !.request = request, !.status = status, !.message = message]

JsonMessage(request, status, message) ==
    [Json(request, status, {"message"}, {}) EXCEPT !.message = message]

generateToken(r, id) == [r EXCEPT !.token = id, !.jwt = "issued"]

----------------------------------------------------------------------------
Init ==
    /\ store = << >>
    /\ nextId = 1
    /\ pc = [p \in Procs |-> "idle"]
    /\ req = [p \in Procs |-> NoReq]
    /\ doc = [p \in Procs |-> NoDoc]
    /\ res = NoRes
    /\ started = 0

\* a request is taken by the first idle slot: the slots are interchangeable
Begin(p) ==
    /\ pc[p] = "idle"
    /\ \A q \in Procs : q < p => pc[q] # "idle"
    /\ started < MaxRequests
    /\ started' = started + 1

Finish(p, r) ==
    /\ pc' = [pc EXCEPT ![p] = "idle"]
    /\ req' = [req EXCEPT ![p] = NoReq]
    /\ doc' = [doc EXCEPT ![p] = NoDoc]
    /\ res' = r

Await(p, label, request, d) ==
    /\ pc' = [pc EXCEPT ![p] = label]
    /\ req' = [req EXCEPT ![p] = request]
    /\ doc' = [doc EXCEPT ![p] = d]
    /\ res' = res

----------------------------------------------------------------------------
(* authUser *)

AuthKeys == {"_id", "fullName", "email", "roles", "isAdmin", "profileImage", "token"}

authUserFind(p) ==
    /\ Begin(p)
    /\ \E body \in AuthInputs :
         LET user == findOne(body.email)
             request == [NoReq EXCEPT !.op = "authUser", !.email = body.email,
                                      !.password = body.password]
         IN IF user # NoDoc
            THEN Await(p, "authMatch", request, user)
            ELSE Finish(p, Error(request, 401, "Invalid email or password"))
    /\ UNCHANGED <<store, nextId>>

\* lines 19-37; ioOk: whether req.app.get('io').emit(...) returns or throws
authUserMatch(p) ==
    /\ pc[p] = "authMatch"
    /\ LET user == doc[p] IN
       IF matchPassword(user, req[p].password)
       THEN \E ioOk \in BOOLEAN :
              IF ioOk
              THEN Finish(p, [generateToken(Json(req[p], 200, AuthKeys, {user}), user._id)
                                EXCEPT !.event = "active",
                                       !.isAdmin = hasRole(user, ADMIN)])
              ELSE Finish(p, [generateToken(Error(req[p], 500, "TypeError"), user._id)
                                EXCEPT !.event = "failed"])
       ELSE Finish(p, Error(req[p], 401, "Invalid email or password"))
    /\ UNCHANGED <<store, nextId, started>>

----------------------------------------------------------------------------
(* registerUser *)

RegisterKeys == {"_id", "fullName", "email", "isAdmin", "profileImage",
                 "username", "roles", "token"}

\* the existence check left out
userExistsNever(email) == FALSE

userExists(email) == findOne(email) # NoDoc

\* the length test left out: an empty list is kept
assignedRolesNoLength(roles) == IF roles # NoRoles THEN roles ELSE <<USER>>

assignedRoles(roles) ==
    IF roles # NoRoles /\ Len(roles) > 0 THEN roles ELSE <<USER>>

registerUserFind(p) ==
    /\ Begin(p)
    /\ \E body \in RegisterInputs :
         LET request == [NoReq EXCEPT !.op = "registerUser", !.fullName = body.fullName,
                           !.email = body.email, !.password = body.password,
                           !.profileImage = body.profileImage,
                           !.username = body.username, !.roles = body.roles]
         IN IF userExists(body.email)
            THEN Finish(p, Error(request, 400, "User already exists"))
            ELSE Await(p, "regCreate", request, NoDoc)
    /\ UNCHANGED <<store, nextId>>

\* the document User.createUser builds from lines 56-63
NewUser(r, id) ==
    [_id |-> id, fullName |-> r.fullName, email |-> r.email,
     username |-> IF Truthy(r.username) THEN r.username ELSE Null,
     password |-> hash(r.password),
     profileImage |-> IF Truthy(r.profileImage) THEN r.profileImage
                      ELSE DefaultProfileImage,
     roles |-> assignedRoles(r.roles), isBanned |-> FALSE]

\* createUser returns nothing for data the schema rejects and raises the
\* duplicate key error of the unique index
registerUserCreate(p) ==
    /\ pc[p] = "regCreate"
    /\ nextId <= MaxAccounts
    /\ LET user == NewUser(req[p], nextId) IN
       IF ~ValidData(user)
       THEN /\ Finish(p, Error(req[p], 400, "Invalid user data"))
            /\ UNCHANGED <<store, nextId>>
       ELSE IF DuplicateKey(user)
       THEN /\ Finish(p, Error(req[p], 500, "E11000 duplicate key"))
            /\ UNCHANGED <<store, nextId>>
       ELSE /\ store' = [i \in DOMAIN store \cup {nextId} |->
                           IF i = nextId THEN user ELSE store[i]]
            /\ nextId' = nextId + 1
            /\ Finish(p, [generateToken(Json(req[p], 201, RegisterKeys, {user}),
                                        user._id)
                             EXCEPT !.isAdmin = hasRole(user, ADMIN)])
    /\ UNCHANGED started

----------------------------------------------------------------------------
(* logoutUser, getUserProfile: req.user is the account the protect          *)
(* middleware loaded for the session token, without its password           *)

ProtectKeys == DocumentKeys \ {"password"}

logoutUser(p) ==
    /\ Begin(p)
    /\ \E id \in DOMAIN store, ioOk \in BOOLEAN :
         LET request == [NoReq EXCEPT !.op = "logoutUser", !.id = id] IN
         IF ioOk
         THEN Finish(p, [JsonMessage(request, 200, "Logged out successfully")
                           EXCEPT !.jwt = "cleared", !.event = "inactive"])
         ELSE Finish(p, [Error(request, 500, "TypeError")
                           EXCEPT !.jwt = "cleared", !.event = "failed"])
    /\ UNCHANGED <<store, nextId>>

getUserProfile(p) ==
    /\ Begin(p)
    /\ \E id \in DOMAIN store :
         Finish(p, Json([NoReq EXCEPT !.op = "getUserProfile", !.id = id], 200,
                        ProtectKeys, {store[id]}))
    /\ UNCHANGED <<store, nextId>>

----------------------------------------------------------------------------
(* user.save() of a loaded document *)

Modified(loaded, user) == { f \in Paths : user[f] # loaded[f] }

\* the whole in-memory document written, not only its modified paths
WrittenWhole(loaded, user) == user

Written(loaded, user) ==
    [f \in DOMAIN user |->
        IF f \in Modified(loaded, user) THEN user[f] ELSE store[user._id][f]]

SaveError(loaded, user) ==
    IF user._id \notin DOMAIN store THEN "DocumentNotFoundError"
    ELSE IF Modified(loaded, user) = {} THEN "none"
    ELSE IF ~ValidData(user) THEN "ValidationError"
    ELSE IF DuplicateKey(Written(loaded, user)) THEN "E11000 duplicate key"
    ELSE "none"

\* a save that inserts the document when it is gone
SaveUpsert(loaded, user) ==
    IF user._id \notin DOMAIN store
    THEN [i \in DOMAIN store \cup {user._id} |->
            IF i = user._id THEN user ELSE store[i]]
    ELSE IF SaveError(loaded, user) = "none"
    THEN [store EXCEPT ![user._id] = Written(loaded, user)]
    ELSE store

Save(loaded, user) ==
    IF SaveError(loaded, user) = "none"
    THEN [store EXCEPT ![user._id] = Written(loaded, user)]
    ELSE store

----------------------------------------------------------------------------
(* updateUserProfile *)

ProfileKeys == {"_id", "fullName", "email", "username", "profileImage"}

\* request bodies of updateUserProfile: one field or none
ProfileInputs ==
    { [fullName |-> n, email |-> Undefined, username |-> Undefined] :
        n \in FullNames \cup {Undefined, Empty} }
    \cup { [fullName |-> Undefined, email |-> "b@x.com", username |-> Undefined],
           [fullName |-> Undefined, email |-> Undefined, username |-> "u1"] }

\* lines 154-156: body value || loaded value
ProfileAssign(user, body) ==
    [user EXCEPT
        !.fullName = IF Truthy(body.fullName) THEN body.fullName ELSE user.fullName,
        !.email = IF Truthy(body.email) THEN body.email ELSE user.email,
        !.username = IF Truthy(body.username) THEN body.username ELSE user.username]

protect(p) ==
    /\ Begin(p)
    /\ \E id \in DOMAIN store, body \in ProfileInputs :
         Await(p, "profFind",
               [NoReq EXCEPT !.op = "updateUserProfile", !.id = id,
                             !.fullName = body.fullName, !.email = body.email,
                             !.username = body.username],
               NoDoc)
    /\ UNCHANGED <<store, nextId>>

updateUserProfileFind(p) ==
    /\ pc[p] = "profFind"
    /\ LET user == findById(req[p].id) IN
       IF user # NoDoc
       THEN Await(p, "profSave", req[p], user)
       ELSE Finish(p, Error(req[p], 404, "User not found"))
    /\ UNCHANGED <<store, nextId, started>>

updateUserProfileSave(p) ==
    /\ pc[p] = "profSave"
    /\ LET user == ProfileAssign(doc[p], req[p])
           err == SaveError(doc[p], user)
       IN /\ store' = Save(doc[p], user)
          /\ IF err = "none"
             THEN Finish(p, Json(req[p], 200, ProfileKeys, {user}))
             ELSE Finish(p, Error(req[p], 500, err))
    /\ UNCHANGED <<nextId, started>>

----------------------------------------------------------------------------
(* getUsers, getUserById: the documents are serialised as loaded *)

getUsers(p) ==
    /\ Begin(p)
    /\ Finish(p, Json([NoReq EXCEPT !.op = "getUsers"], 200, DocumentKeys, find))
    /\ UNCHANGED <<store, nextId>>

getUserById(p) ==
    /\ Begin(p)
    /\ \E id \in Ids :
         LET user == findById(id)
             request == [NoReq EXCEPT !.op = "getUserById", !.id = id]
         IN IF user # NoDoc
            THEN Finish(p, Json(request, 200, DocumentKeys, {user}))
            ELSE Finish(p, Error(request, 404, "User not found"))
    /\ UNCHANGED <<store, nextId>>

----------------------------------------------------------------------------
(* updateUser *)

AdminKeys == {"_id", "fullName", "email", "roles", "username", "profileImage"}

\* request bodies of updateUser: one field, none, or all of them with invalid roles
AdminInputs ==
    { [fullName |-> n, email |-> Undefined, username |-> Undefined, roles |-> NoRoles] :
        n \in FullNames \cup {Undefined} }
    \cup { [fullName |-> Undefined, email |-> "b@x.com", username |-> Undefined,
            roles |-> NoRoles],
           [fullName |-> Undefined, email |-> Undefined, username |-> "u1",
            roles |-> NoRoles] }
    \cup { [fullName |-> Undefined, email |-> Undefined, username |-> Undefined,
            roles |-> r] : r \in RoleInputs }
    \cup { [fullName |-> "B", email |-> "b@x.com", username |-> "u1",
            roles |-> <<"ROOT", "USER", "SUPERUSER">>] }

\* the username assigned without the test for undefined
AdminAssignUsername(user, body) ==
    [user EXCEPT
        !.fullName = IF body.fullName # Undefined THEN body.fullName ELSE user.fullName,
        !.email = IF body.email # Undefined THEN body.email ELSE user.email,
        !.username = body.username]

\* lines 203-205: body value when it is not undefined
AdminAssign(user, body) ==
    [user EXCEPT
        !.fullName = IF body.fullName # Undefined THEN body.fullName ELSE user.fullName,
        !.email = IF body.email # Undefined THEN body.email ELSE user.email,
        !.username = IF body.username # Undefined THEN body.username ELSE user.username]

validRoles == UserRole

\* only the first invalid role reported
invalidRolesFirst(roles) ==
    LET invalid == SelectSeq(roles, LAMBDA role : role \notin validRoles)
    IN IF Len(invalid) > 1 THEN <<invalid[1]>> ELSE invalid

invalidRoles(roles) == SelectSeq(roles, LAMBDA role : role \notin validRoles)

RECURSIVE join(_)
join(s) ==
    IF Len(s) = 0 THEN ""
    ELSE IF Len(s) = 1 THEN s[1]
    ELSE s[1] \o ", " \o join(Tail(s))

InvalidRolesMessage(roles) == "Invalid roles provided: " \o join(invalidRoles(roles))

\* line 218: the roles of the body replace the loaded ones
AdminRoles(user, body) ==
    IF body.roles # NoRoles THEN [user EXCEPT !.roles = body.roles] ELSE user

updateUserFind(p) ==
    /\ Begin(p)
    /\ \E id \in Ids, body \in AdminInputs :
         LET user == findById(id)
             request == [NoReq EXCEPT !.op = "updateUser", !.id = id,
                           !.fullName = body.fullName, !.email = body.email,
                           !.username = body.username, !.roles = body.roles]
         IN IF user = NoDoc
            THEN Finish(p, Error(request, 404, "User not found"))
            ELSE IF body.roles # NoRoles /\ Len(invalidRoles(body.roles)) > 0
            THEN Finish(p, Error(request, 400, InvalidRolesMessage(body.roles)))
            ELSE Await(p, "admSave", request, user)
    /\ UNCHANGED <<store, nextId>>

updateUserSave(p) ==
    /\ pc[p] = "admSave"
    /\ LET user == AdminRoles(AdminAssign(doc[p], req[p]), req[p])
           err == SaveError(doc[p], user)
       IN /\ store' = Save(doc[p], user)
          /\ IF err = "none"
             THEN Finish(p, Json(req[p], 200, AdminKeys, {user}))
             ELSE Finish(p, Error(req[p], 500, err))
    /\ UNCHANGED <<nextId, started>>

----------------------------------------------------------------------------
(* deleteUser *)

Remove(id) == [i \in DOMAIN store \ {id} |-> store[i]]

deleteUserFind(p) ==
    /\ Begin(p)
    /\ \E id \in Ids :
         LET user == findById(id)
             request == [NoReq EXCEPT !.op = "deleteUser", !.id = id]
         IN IF user # NoDoc
            THEN Await(p, "delRemove", request, user)
            ELSE Finish(p, Error(request, 404, "User not found"))
    /\ UNCHANGED <<store, nextId>>

deleteUserRemove(p) ==
    /\ pc[p] = "delRemove"
    /\ store' = Remove(doc[p]._id)
    /\ Finish(p, JsonMessage(req[p], 200, "User removed"))
    /\ UNCHANGED <<nextId, started>>

----------------------------------------------------------------------------
(* banUser, unbanUser: the moderation service sets the ban flag *)

setBanned(p, op, flag) ==
    /\ Begin(p)
    /\ \E id \in Ids :
         LET request == [NoReq EXCEPT !.op = op, !.id = id] IN
         IF id \in DOMAIN store
         THEN /\ store' = [store EXCEPT ![id].isBanned = flag]
              /\ Finish(p, Json(request, 200, {"message"}, {}))
         ELSE /\ store' = store
              /\ Finish(p, Error(request, 404, "User not found"))
    /\ UNCHANGED nextId

banUser(p) == setBanned(p, "banUser", TRUE)

unbanUser(p) == setBanned(p, "unbanUser", FALSE)

----------------------------------------------------------------------------
Next ==
    \E p \in Procs :
        \/ authUserFind(p)
        \/ authUserMatch(p)
        \/ registerUserFind(p)
        \/ registerUserCreate(p)
        \/ logoutUser(p)
        \/ getUserProfile(p)
        \/ protect(p)
        \/ updateUserProfileFind(p)
        \/ updateUserProfileSave(p)
        \/ getUsers(p)
        \/ getUserById(p)
        \/ updateUserFind(p)
        \/ updateUserSave(p)
        \/ deleteUserFind(p)
        \/ deleteUserRemove(p)
        \/ banUser(p)
        \/ unbanUser(p)

Spec == Init /\ [][Next]_vars


----------------------------------------------------------------------------
(* Properties *)

\* a step that starts a request, and the request it starts
Started == started' # started

Acting ==
    IF pc' = pc THEN res'.request
    ELSE req'[CHOOSE p \in Procs : pc'[p] # pc[p]]

EmailPresent(email) == \E i \in DOMAIN store : store[i].email = email

UpdateFields == {"fullName", "email", "username"}

SaveDone(p) == pc[p] \in {"profSave", "admSave"} /\ pc'[p] = "idle"

\* C1: authUser answers 200 with a session token exactly when an account
\* with the email exists and the password check returns true; in every other
\* case it answers 401 'Invalid email or password', for an unknown email as
\* for a wrong password.
C1_AuthenticateIff ==
    [][ /\ \A p \in Procs :
             pc[p] = "authMatch" /\ pc'[p] = "idle" =>
               IF doc[p].password = hash(req[p].password)
               THEN /\ res'.status = 200
                    /\ res'.token = doc[p]._id
                    /\ "token" \in res'.keys
               ELSE /\ res'.status = 401
                    /\ res'.message = "Invalid email or password"
        /\ Started /\ Acting.op = "authUser" /\ ~EmailPresent(Acting.email) =>
             /\ pc' = pc
             /\ res'.status = 401
             /\ res'.message = "Invalid email or password"
        /\ Started /\ Acting.op = "authUser" /\ EmailPresent(Acting.email) =>
             pc' # pc
      ]_vars

\* C2: no two stored accounts have the same email, whatever the interleaving
\* of register, update and remove requests; a registration whose existence
\* check finds the email answers 400 'User already exists' and creates no
\* account, and a registration whose email was taken between its check and
\* its create creates no account either.
UniqueEmails ==
    \A i, j \in DOMAIN store : i # j => store[i].email # store[j].email

C2_EmailUnique ==
    [][ /\ UniqueEmails'
        /\ Started /\ Acting.op = "registerUser" /\ EmailPresent(Acting.email) =>
             /\ pc' = pc
             /\ res'.status = 400
             /\ res'.message = "User already exists"
             /\ store' = store
        /\ \A p \in Procs :
             pc[p] = "regCreate" /\ pc'[p] = "idle" /\ EmailPresent(req[p].email) =>
               store' = store /\ res'.status # 201
      ]_vars

\* two registrations of one email both passed the existence check; the
\* second create was refused
C2_Witness ==
    /\ res.request.op = "registerUser"
    /\ res.message = "E11000 duplicate key"
    /\ \E i \in DOMAIN store : store[i].email = res.request.email

\* C3: every stored account's role list is non-empty and holds only roles of
\* the UserRole enumeration.
C3_RolesNonEmptySubset ==
    \A i \in DOMAIN store :
        store[i].roles # <<>> /\ Range(store[i].roles) \subseteq UserRole

\* C4: no response body carries the password hash of an account.
C4_NoPasswordInResponse == ~("password" \in res.keys /\ res.docs # {})

\* C5: when the userStatus emit fails, login with valid credentials still
\* answers 200 with the token and logout still answers 200 'Logged out
\* successfully' with the session cookie cleared.
C5_NotifierFailureHarmless ==
    res.event = "failed" =>
        /\ res.status = 200
        /\ res.request.op = "authUser" => res.token # 0 /\ "token" \in res.keys
        /\ res.request.op = "logoutUser" =>
             res.message = "Logged out successfully" /\ res.jwt = "cleared"

\* the roles of a list that are outside the enumeration, in their order
RECURSIVE C6_Offending(_)
C6_Offending(roles) ==
    IF roles = <<>> THEN <<>>
    ELSE (IF Head(roles) \in UserRole THEN <<>> ELSE <<Head(roles)>>)
         \o C6_Offending(Tail(roles))

\* C6: updateUser of an existing account with a roles list that holds a role
\* outside the enumeration answers 400 with a message that lists every
\* invalid role, and leaves the stored account as it was, also the fullName,
\* email and username the request supplied.
C6_InvalidRolesRejected ==
    [][ Started /\ Acting.op = "updateUser" /\ Acting.id \in DOMAIN store
          /\ Acting.roles # NoRoles /\ ~(Range(Acting.roles) \subseteq UserRole) =>
             /\ pc' = pc
             /\ res'.status = 400
             /\ res'.message =
                  "Invalid roles provided: " \o join(C6_Offending(Acting.roles))
             /\ store' = store
      ]_vars

C6_Witness ==
    /\ res.request.op = "updateUser"
    /\ res.status = 400
    /\ res.message = "Invalid roles provided: ROOT, SUPERUSER"
    /\ res.request.fullName = "B"
    /\ res.request.id \in DOMAIN store
    /\ store[res.request.id].fullName = "A"

\* C7: deleteUser of an absent id answers 404 'User not found' and changes
\* nothing; an id that was removed never comes back into the store, not by
\* the save of an update that loaded the account before the removal; after
\* the removal getUserById of the id answers 404, getUsers does not list it
\* and authUser for an email no stored account has answers 401.
C7_RemovedStaysRemoved ==
    [][ /\ \A id \in Ids :
             id < nextId /\ id \notin DOMAIN store => id \notin DOMAIN store'
        /\ \A p \in Procs :
             pc[p] = "delRemove" /\ pc'[p] = "idle" =>
               req[p].id \notin DOMAIN store' /\ res'.status = 200
        /\ Started /\ Acting.op = "deleteUser" /\ Acting.id \notin DOMAIN store =>
             /\ pc' = pc
             /\ res'.status = 404
             /\ res'.message = "User not found"
             /\ store' = store
        /\ Started /\ Acting.op = "getUserById" /\ Acting.id \notin DOMAIN store =>
             res'.status = 404 /\ res'.message = "User not found"
        /\ Started /\ Acting.op = "getUsers" =>
             \A d \in res'.docs : d._id \in DOMAIN store
        /\ Started /\ Acting.op = "authUser" /\ ~EmailPresent(Acting.email) =>
             res'.status = 401
      ]_vars

\* an update loaded the account, the account was removed, the update's save
\* failed and the account is still gone
C7_Witness ==
    /\ res.request.op \in {"updateUser", "updateUserProfile"}
    /\ res.message = "DocumentNotFoundError"
    /\ res.request.id < nextId
    /\ res.request.id \notin DOMAIN store

\* C8: the save of updateUserProfile and of updateUser leaves every one of
\* fullName, email and username the request does not supply as it was stored,
\* and leaves the password hash, the profile image, the ban flag and (for
\* updateUserProfile, or updateUser without roles) the roles as they were;
\* no other account changes; for an absent id both answer 404 'User not
\* found' and the store is unchanged.
C8_PartialUpdate ==
    [][ /\ \A p \in Procs :
             SaveDone(p) =>
               /\ DOMAIN store' = DOMAIN store
               /\ \A i \in DOMAIN store \ {req[p].id} : store'[i] = store[i]
               /\ req[p].id \in DOMAIN store =>
                    LET old == store[req[p].id]
                        new == store'[req[p].id]
                    IN /\ \A f \in UpdateFields :
                            req[p][f] = Undefined => new[f] = old[f]
                       /\ new.password = old.password
                       /\ new.profileImage = old.profileImage
                       /\ new.isBanned = old.isBanned
                       /\ pc[p] = "profSave" \/ req[p].roles = NoRoles =>
                            new.roles = old.roles
        /\ \A p \in Procs :
             pc[p] = "profFind" /\ pc'[p] # "profFind"
               /\ req[p].id \notin DOMAIN store =>
                 /\ pc'[p] = "idle"
                 /\ res'.status = 404
                 /\ res'.message = "User not found"
                 /\ store' = store
        /\ Started /\ Acting.op = "updateUser" /\ Acting.id \notin DOMAIN store =>
             /\ pc' = pc
             /\ res'.status = 404
             /\ res'.message = "User not found"
             /\ store' = store
      ]_vars

\* an update that supplied the fullName only has been saved
C8_Witness ==
    /\ res.request.op = "updateUser"
    /\ res.status = 200
    /\ res.request.fullName = "B"
    /\ res.request.email = Undefined
    /\ res.request.username = Undefined
    /\ res.request.id \in DOMAIN store
    /\ store[res.request.id].fullName = "B"
    /\ store[res.request.id].email = "a@x.com"

\* C9: a registration without roles, or with an empty roles list, that
\* creates an account stores the roles [USER], answers 201 with the roles
\* [USER] and issues a session token for the id of the new account.
C9_DefaultRole ==
    [][ \A p \in Procs :
          pc[p] = "regCreate" /\ pc'[p] = "idle" /\ store' # store
            /\ req[p].roles \in {NoRoles, <<>>} =>
              \E id \in DOMAIN store' \ DOMAIN store :
                  /\ store'[id].roles = <<"USER">>
                  /\ res'.status = 201
                  /\ "roles" \in res'.keys
                  /\ res'.docs # {}
                  /\ \A d \in res'.docs : d._id = id /\ d.roles = <<"USER">>
                  /\ res'.token = id
                  /\ res'.jwt = "issued"
      ]_vars

C9_Witness ==
    /\ res.request.op = "registerUser"
    /\ res.request.roles = <<>>
    /\ res.status = 201
    /\ res.token \in DOMAIN store
    /\ store[res.token].roles = <<"USER">>

\* the request of p supplies field f: the handler takes the body's value
Supplies(p, f) ==
    IF req[p].op = "updateUserProfile" THEN Truthy(req[p][f])
    ELSE req[p][f] # Undefined

\* the account of p's update was written after p loaded it
WrittenSinceLoad(p) ==
    /\ req[p].id \in DOMAIN store
    /\ \E f \in UpdateFields \cup {"roles"} : store[req[p].id][f] # doc[p][f]

====
